---- MODULE Spec2Model ----
(***************************************************************************)
(* Model of the event broker of src/src/proof_streaming.py                 *)
(* (class ProofStreamingServer): connection lifecycle, subscription        *)
(* registry, filter matching, broadcast and counters.                      *)
(*                                                                         *)
(* Scheduling: asyncio, one task per connection.  A task runs without      *)
(* interruption from one suspension point to the next, so every action     *)
(* below is the code between two suspension points.  The suspension        *)
(* points of a connection task are: waiting for the next inbound frame     *)
(* (line 119) and waiting in websocket.send (line 358).                    *)
(*                                                                         *)
(* The broker's start and stop with its metrics tasks (start_server,       *)
(* stop_server, _update_metrics_loop) and the client mirror (class         *)
(* ProofStreamingClient) are modelled in specifications of their own.      *)
(*                                                                         *)
(* Optional values (Python None) are modelled as sets: None is {} and a    *)
(* present value x is {x}.                                                 *)
(***************************************************************************)
EXTENDS Integers, Sequences, FiniteSets, TLC

\* ------------------------------------------------------------ bounds
NumClients == 2      \* connections that may ever be accepted
MaxInputs == 5       \* external inputs taken in a run (see TakesInput)
MaxTime == 1         \* largest clock reading
MaxHandlers == 3     \* registrations of event handlers in a run
MaxEmits == 10       \* calls of a notification helper in a metrics run
MaxClock == 5        \* largest clock reading in a metrics run
MaxStarts == 2       \* calls of start_server that succeed in a run
MaxCalls == 4        \* calls of the client's methods in a run

\* ------------------------------------------------------- data model
None == {}
Some(x) == {x}
The(opt) == CHOOSE x \in opt : TRUE

\* client_id (line 100): the i-th connection accepted is ClientIds[i]
ClientIds == <<"c1", "c2", "c3", "c4">>
Clients == {ClientIds[i] : i \in 1..NumClients}

\* class EventType(Enum): the members, named by their values
EventType ==
  {"proof_submitted", "verification_complete", "chain_step_added",
   "stream_created", "agent_registered", "task_delegated", "operad_completed"}

\* StreamEvent: the fields the broker reads.  data holds optional keys.
StreamEvent(kind, sid, arch, agent, submitter, quality, chain) ==
  [event_type |-> kind, stream_id |-> sid,
   data |-> [architecture |-> arch, agent |-> agent, submitter |-> submitter,
             quality_score |-> quality, chain_id |-> chain]]

\* StreamFilter (dataclass, every field defaults to None)
StreamFilter(archs, agents, kinds, threshold, chain) ==
  [architectures |-> archs, agents |-> agents, event_types |-> kinds,
   quality_threshold |-> threshold, chain_id |-> chain]

\* membership of x in a Python list modelled as a sequence
InList(x, list) == \E i \in 1..Len(list) : list[i] = x

\* membership of an optional value (None is in no list of strings)
InOptList(opt, list) == opt # None /\ InList(The(opt), list)

\* Python truthiness of an optional list, an optional number, an optional string
TruthyList(opt) == opt # None /\ Len(The(opt)) > 0
TruthyNum(opt) == opt # None /\ The(opt) # 0
TruthyStr(opt) == opt # None /\ The(opt) # ""

\* mutant: the submitter is never consulted
AgentOfNoFallback(event) == event.data.agent

\* event.data.get("agent") or event.data.get("submitter")
AgentOf(event) ==
  IF TruthyStr(event.data.agent) THEN event.data.agent ELSE event.data.submitter

\* event.data.get("quality_score", 0)
QualityOf(event) ==
  IF event.data.quality_score = None THEN 0 ELSE The(event.data.quality_score)

\* the body of the for loop of _event_matches_filters for one filter f:
\* TRUE when no `continue` is taken
FilterAccepts(event, f) ==
  /\ ~(TruthyList(f.event_types) /\ ~InList(event.event_type, The(f.event_types)))
  /\ ~(TruthyList(f.architectures)
       /\ ~InOptList(event.data.architecture, The(f.architectures)))
  /\ ~(TruthyList(f.agents) /\ ~InOptList(AgentOf(event), The(f.agents)))
  /\ ~(TruthyNum(f.quality_threshold) /\ QualityOf(event) < The(f.quality_threshold))
  /\ ~(TruthyStr(f.chain_id) /\ event.data.chain_id # f.chain_id)

\* StreamFilter(...) of lines 172-178 stores the fields of the "filter"
\* object as they come, whatever their type.  A JSON number sent where a
\* list is expected (a truthy one, such as 5) is written as this sequence.
NotIterable == <<"<number>">>

\* the body of the for loop for one filter f raises: line 326 evaluates
\* `x not in 5` (TypeError: argument of type 'int' is not iterable)
FilterRaises(event, f) ==
  /\ ~(TruthyList(f.event_types) /\ ~InList(event.event_type, The(f.event_types)))
  /\ f.architectures = Some(NotIterable)

\* the for loop of _event_matches_filters from filter i on ends in a fault
RECURSIVE MatchRaisesFrom(_, _, _)
MatchRaisesFrom(event, filters, i) ==
  IF i > Len(filters) THEN FALSE
  ELSE IF FilterRaises(event, filters[i]) THEN TRUE
  ELSE IF FilterAccepts(event, filters[i]) THEN FALSE
  ELSE MatchRaisesFrom(event, filters, i + 1)

\* _event_matches_filters raises instead of returning
EventMatchesFiltersRaises(event, filters) == MatchRaisesFrom(event, filters, 1)

RECURSIVE MatchFrom(_, _, _)
MatchFrom(event, filters, i) ==
  IF i > Len(filters) THEN FALSE
  ELSE IF FilterAccepts(event, filters[i]) THEN TRUE
  ELSE MatchFrom(event, filters, i + 1)

\* mutant: the empty-list shortcut of line 318 left out
EventMatchesFiltersNoDefault(event, filters) == MatchFrom(event, filters, 1)

\* _event_matches_filters
EventMatchesFilters(event, filters) ==
  IF Len(filters) = 0 THEN TRUE ELSE MatchFrom(event, filters, 1)


\* ------------------------------------------------------------ state
VARIABLES
  pc,                   \* position of each connection's task (_handle_client)
  ws,                   \* transport of each connection: "open" or "closed"
  cont,                 \* what a task suspended in a send does when it resumes
  connected_clients,    \* keys of self.connected_clients
  client_subscriptions, \* self.client_subscriptions, in insertion order
  active_streams,       \* self.active_streams
  metrics,              \* self.metrics
  events_since,         \* self._events_since_last_update
  reply,                \* the frame each task is suspended sending, if any
  now,                  \* latest reading of time.time()
  inputs,               \* external inputs taken so far
  lastEmit,             \* history: the _emit_event call of the latest step, if any
  sentAfterClose,       \* history: connections sent to after their teardown
  mEvent, mFilters, mResult, mPhase, \* inputs and result of the matching engine
  event_handlers,       \* self.event_handlers: the handlers of each kind, in order
  last_metrics_update,  \* self._last_metrics_update
  emitCalls,            \* history: the calls of _emit_event made so far
  consumed,             \* history: sum of the counts the metrics ticks have reset
  life,                 \* self.running, self.server and the metrics tasks
  client                \* a ProofStreamingClient and its channel

vars ==
  <<pc, ws, cont, connected_clients, client_subscriptions, active_streams,
    metrics, events_since, reply, now, inputs, lastEmit,
    sentAfterClose, mEvent, mFilters, mResult, mPhase,
    event_handlers, last_metrics_update, emitCalls, consumed, life, client>>

brokerVars ==
  <<pc, ws, cont, connected_clients, client_subscriptions, active_streams,
    metrics, events_since, reply, now, inputs, lastEmit,
    sentAfterClose, event_handlers, last_metrics_update, emitCalls, consumed>>

matchVars == <<mEvent, mFilters, mResult, mPhase>>

\* what the handling of a connection's frames and transport never writes
otherVars ==
  <<matchVars, event_handlers, last_metrics_update, consumed, life, client>>

\* ---------------------------------------------- subscription registry
\* client_subscriptions is a defaultdict(list): a sequence of
\* [id, filters] entries with distinct ids, in insertion order.
SubKeys(subs) == {subs[i].id : i \in 1..Len(subs)}

SubIndex(subs, c) == CHOOSE i \in 1..Len(subs) : subs[i].id = c

\* self.client_subscriptions[c], without the insertion a defaultdict does
FiltersOf(subs, c) == IF c \in SubKeys(subs) THEN subs[SubIndex(subs, c)].filters ELSE <<>>

\* mutant: the new filter is put in front of the list
SubPrepend(subs, c, f) ==
  IF c \in SubKeys(subs)
  THEN [subs EXCEPT ![SubIndex(subs, c)].filters = <<f>> \o @]
  ELSE Append(subs, [id |-> c, filters |-> <<f>>])

\* self.client_subscriptions[c].append(f): a missing key is inserted last
SubAppend(subs, c, f) ==
  IF c \in SubKeys(subs)
  THEN [subs EXCEPT ![SubIndex(subs, c)].filters = Append(@, f)]
  ELSE Append(subs, [id |-> c, filters |-> <<f>>])

\* mutant: the cleanup empties the whole registry
SubDeleteAll(subs, c) == <<>>

\* del self.client_subscriptions[c]
SubDelete(subs, c) == SelectSeq(subs, LAMBDA e : e.id # c)

\* mutant: the last filter is removed, whatever the index
ListDeleteLast(list, i) == SubSeq(list, 1, Len(list) - 1)

\* del list[i] (i counts from 0)
ListDelete(list, i) ==
  [j \in 1..(Len(list) - 1) |-> IF j <= i THEN list[j] ELSE list[j + 1]]

\* ------------------------------------------------------------- sending
\* json.dumps(data) of line 358: a member of the Enum EventType is not JSON
\* serializable (TypeError).  asdict(event) always holds event.event_type;
\* asdict(stream_filter) holds the members of event_types.
JsonSerializable(msg) ==
  CASE msg.type = "stream_event" -> FALSE
    [] msg.type = "subscription_confirmed" -> ~TruthyList(msg.filter.event_types)
    [] OTHER -> TRUE

\* The server state the send and emit code reads and writes.
Server ==
  [connected |-> connected_clients, subs |-> client_subscriptions,
   metrics |-> metrics, since |-> events_since, reply |-> reply,
   afterClose |-> sentAfterClose, delivered |-> {},
   handlers |-> event_handlers, invoked |-> <<>>, raised |-> FALSE,
   calls |-> emitCalls]

\* the except branch of _send_to_client (lines 359-363)
SendFailure(S, c) ==
  [S EXCEPT !.connected = @ \ {c}]

\* _send_to_client up to its suspension in websocket.send.  Result: the new
\* server state and whether the caller is now suspended in the send.
SendToClient(S, c, msg) ==
  IF c \notin S.connected THEN [s |-> S, susp |-> FALSE]
  ELSE LET S1 == IF pc[c] = "closed" THEN [S EXCEPT !.afterClose = @ \cup {c}] ELSE S
       IN  IF ~JsonSerializable(msg) \/ ws[c] = "closed"
           THEN [s |-> SendFailure(S1, c), susp |-> FALSE]
           ELSE [s |-> IF msg.type = "stream_event"
                       THEN [S1 EXCEPT !.delivered = @ \cup {c}]
                       ELSE [S1 EXCEPT !.reply[c] = Some(msg)],
                 susp |-> TRUE]

\* --------------------------------------------------------- broadcast
StreamEventMsg(event) == [type |-> "stream_event", event |-> event]

\* the loop of lines 305-307 from entry i on.  The iteration is over the
\* registry as it is when the loop starts.  json.dumps raises before
\* websocket.send is awaited, so the loop has no suspension point.  A fault
\* of _event_matches_filters is not caught in _emit_event: it ends the loop.
RECURSIVE EmitLoop(_, _, _, _)
EmitLoop(S, subs, event, i) ==
  IF i > Len(subs) THEN S
  ELSE IF EventMatchesFiltersRaises(event, subs[i].filters)
       THEN [S EXCEPT !.raised = TRUE]
  ELSE IF EventMatchesFilters(event, subs[i].filters)
       THEN EmitLoop(SendToClient(S, subs[i].id, StreamEventMsg(event)).s,
                     subs, event, i + 1)
       ELSE EmitLoop(S, subs, event, i + 1)

\* the handlers add_event_handler may be given; awaiting "bad" raises
Handlers == {"h1", "bad"}

HandlerRaises(h) == h = "bad"

\* mutant: the first handler that raises ends the loop
RECURSIVE InvokeHandlersStopOnFault(_, _)
InvokeHandlersStopOnFault(list, i) ==
  IF i > Len(list) THEN <<>>
  ELSE IF HandlerRaises(list[i]) THEN <<list[i]>>
  ELSE <<list[i]>> \o InvokeHandlersStopOnFault(list, i + 1)

\* the loop of lines 310-314 from handler i on: the handlers awaited, in
\* order.  What a handler raises is caught and logged (lines 313-314).
RECURSIVE InvokeHandlers(_, _)
InvokeHandlers(list, i) ==
  IF i > Len(list) THEN <<>>
  ELSE <<list[i]>> \o InvokeHandlers(list, i + 1)

\* _emit_event (lines 293-314): counters, the send loop, then the handlers
\* registered for the kind of the event.  When the send loop raises, the
\* fault leaves _emit_event before line 310 and goes to the caller.
EmitEvent(S, event) ==
  LET T == EmitLoop([S EXCEPT !.metrics.total_events = @ + 1, !.since = @ + 1,
                              !.delivered = {}, !.raised = FALSE,
                              !.calls = @ + 1],
                    S.subs, event, 1)
  IN  IF T.raised THEN T
      ELSE [T EXCEPT !.invoked = InvokeHandlers(S.handlers[event.event_type], 1)]

\* history record of one _emit_event call from state S to state T
EmitRecord(S, T, event) ==
  [n |-> T.metrics.total_events, event |-> event, subs |-> S.subs,
   before |-> S.connected, wsopen |-> {c \in Clients : ws[c] = "open"},
   torn |-> {c \in Clients : pc[c] = "closed"},
   delivered |-> T.delivered, after |-> T.connected,
   invoked |-> T.invoked, raised |-> T.raised]


\* ------------------------------------------------------ stream registry
\* hashlib.sha256(f"{client_id}_{stream_spec}_{time.time()}").hexdigest():
\* the digest is determined by, and stands for, the three values hashed
StreamId(c, spec, t) == <<c, spec, t>>

UnknownStream == <<"unknown">>

StreamSpecs == {"spec"}

\* self.active_streams[stream_id] = {...} (lines 222-229)
StreamPut(streams, sid, c, spec, t) ==
  [x \in DOMAIN streams \cup {sid} |->
     IF x = sid
     THEN [creator |-> c, spec |-> spec, created_at |-> t, event_count |-> 0]
     ELSE streams[x]]

\* the events the handlers and helpers construct
StreamCreatedEvent(sid) ==
  StreamEvent("stream_created", sid, None, None, None, None, None)

ProofSubmittedEvent(sid, c, arch) ==
  StreamEvent("proof_submitted", sid,
              IF arch = None THEN Some("unknown") ELSE arch,
              None, Some(c), None, None)

VerificationCompleteEvent(agent, arch) ==
  StreamEvent("verification_complete", <<"global">>, Some(arch), Some(agent),
              None, None, None)

ChainStepAddedEvent(chain, agent, arch) ==
  StreamEvent("chain_step_added", <<"global">>, Some(arch), Some(agent), None,
              None, Some(chain))

AgentRegisteredEvent(agent) ==
  StreamEvent("agent_registered", <<"global">>, None, Some(agent), None, None, None)

\* ----------------------------------------------------- request inputs
Architectures == {"RWKV", "Mamba"}
Agents == {"a1"}

\* the "filter" object of a subscribe frame; event_types holds raw strings
SubscribeFilters ==
  {StreamFilter(None, None, None, None, None),
   StreamFilter(Some(<<"RWKV">>), None, None, None, None),
   StreamFilter(None, None, Some(<<"proof_submitted">>), None, None),
   StreamFilter(None, None, Some(<<"bogus">>), None, None)}

\* [EventType(et) for et in filter_data.get("event_types", [])] succeeds
FilterDecodes(fd) ==
  fd.event_types = None
    \/ \A i \in 1..Len(The(fd.event_types)) : The(fd.event_types)[i] \in EventType

\* StreamFilter(...) of lines 172-178
DecodeFilter(fd) ==
  [fd EXCEPT !.event_types = IF fd.event_types = None THEN Some(<<>>) ELSE @]

UnsubscribeIds == {None} \cup {Some(i) : i \in -1..1}

ProofStreamIds == DOMAIN active_streams \cup {UnknownStream}

ProofArchitectures == {None, Some("Mamba")}

\* ------------------------------------------------------------ metrics
RECURSIVE Gcd(_, _)
Gcd(a, b) == IF b = 0 THEN a ELSE Gcd(b, a % b)

\* mutant: the quotient is rounded down to a whole number
RatioFloor(n, d) == [num |-> n \div d, den |-> 1]

\* the quotient n / d of line 374 as a fraction in lowest terms
Ratio(n, d) == [num |-> n \div Gcd(n, d), den |-> d \div Gcd(n, d)]

\* ------------------------------------------------------ state changes
NoCont == [k |-> "loop"]

NoEmit == [n |-> 0]

Install(T) ==
  /\ connected_clients' = T.connected
  /\ client_subscriptions' = T.subs
  /\ metrics' = T.metrics
  /\ events_since' = T.since
  /\ reply' = T.reply
  /\ sentAfterClose' = T.afterClose
  /\ emitCalls' = T.calls

\* the task of c is suspended in websocket.send and will go on with k
Suspend(c, k) ==
  /\ pc' = [pc EXCEPT ![c] = "sending"]
  /\ cont' = [cont EXCEPT ![c] = k]

\* a handler whose last statement is the send whose result is r
ReplyAndReturn(c, r) ==
  /\ Install(r.s)
  /\ IF r.susp THEN Suspend(c, NoCont) ELSE UNCHANGED <<pc, cont>>

\* the readings time.time() may return: the clock never runs backwards
ClockReadings == now..MaxTime

\* the readings time.time() may return after a sleep (line 368): time has
\* passed since the latest reading
LaterReadings(max) == (now + 1)..max

\* An external input arrives: a connection is accepted, a transport closes,
\* a frame is received or a collaborator calls a helper.
TakesInput == inputs < MaxInputs /\ inputs' = inputs + 1

\* mutant: frames are still taken after the teardown
ReceivesAfterTeardown(c) ==
  /\ pc[c] \in {"idle", "closed"}
  /\ TakesInput
  /\ UNCHANGED otherVars

\* mutant: a frame is taken while the handler of the previous one is
\* suspended in a send
ReceivesWhileSuspended(c) ==
  /\ pc[c] \in {"idle", "sending"}
  /\ ws[c] = "open"
  /\ TakesInput
  /\ UNCHANGED otherVars

\* the task of c is waiting for its next frame, and one arrives
Receives(c) ==
  /\ pc[c] = "idle"
  /\ ws[c] = "open"
  /\ TakesInput
  /\ UNCHANGED otherVars

\* ProofStreamingServer.__init__ (lines 51-72)
BrokerInit ==
  /\ pc = [c \in Clients |-> "new"]
  /\ ws = [c \in Clients |-> "open"]
  /\ cont = [c \in Clients |-> NoCont]
  /\ connected_clients = {}
  /\ client_subscriptions = <<>>
  /\ active_streams = <<>>
  /\ metrics = [total_events |-> 0, events_per_second |-> Ratio(0, 1),
                connected_clients |-> 0, active_streams |-> 0,
                average_latency |-> 0]
  /\ events_since = 0
  /\ event_handlers = [k \in EventType |-> <<>>]
  /\ last_metrics_update = 0
  /\ emitCalls = 0
  /\ consumed = 0
  /\ reply = [c \in Clients |-> None]
  /\ now = 0
  /\ inputs = 0
  /\ lastEmit = NoEmit
  /\ sentAfterClose = {}

\* self.server and self.running after __init__ (lines 58-59); no metrics
\* task exists yet
ServerConstructed ==
  [running |-> FALSE, server |-> "none", stopping |-> FALSE, tasks |-> <<>>]

\* the same after start_server has brought the broker up (lines 81-85):
\* it listens, running is set and one metrics task sleeps
ServerStarted ==
  [running |-> TRUE, server |-> "open", stopping |-> FALSE,
   tasks |-> <<[pc |-> "sleeping", stopped |-> FALSE, after |-> 0]>>]

\* ProofStreamingClient.__init__ (lines 433-438) and a channel not yet made
ClientConstructed ==
  [connected |-> FALSE, websocket |-> "none", reader |-> "none",
   closing |-> "none", sent |-> 0, calls |-> 0, outcome |-> "none",
   last |-> "none"]

\* the broker constructed and brought up by start_server
Init ==
  /\ BrokerInit
  /\ life = ServerStarted
  /\ client = ClientConstructed
  /\ mEvent = StreamCreatedEvent(UnknownStream)
  /\ mFilters = <<>>
  /\ mResult = FALSE
  /\ mPhase = "off"

\* mutant: the connection gets an empty filter list when it is accepted
ConnectRegistersFilterList(c) ==
  /\ pc[c] = "new"
  /\ \A i \in 1..NumClients : ClientIds[i] = c => \A j \in 1..(i - 1) : pc[ClientIds[j]] # "new"
  /\ LET S1 == [Server EXCEPT !.connected = @ \cup {c},
                              !.subs = Append(@, [id |-> c, filters |-> <<>>]),
                              !.metrics.connected_clients =
                                 Cardinality(connected_clients \cup {c})]
         r == SendToClient(S1, c, [type |-> "connection_established", client_id |-> c])
     IN  /\ Install(r.s)
         /\ IF r.susp THEN Suspend(c, NoCont)
            ELSE pc' = [pc EXCEPT ![c] = "idle"] /\ UNCHANGED cont
  /\ lastEmit' = NoEmit
  /\ TakesInput
  /\ UNCHANGED <<ws, active_streams, now, otherVars>>

\* _handle_client lines 100-116: accept, register, send the welcome
Connect(c) ==
  /\ pc[c] = "new"
  /\ \A i \in 1..NumClients : ClientIds[i] = c => \A j \in 1..(i - 1) : pc[ClientIds[j]] # "new"
  /\ LET S1 == [Server EXCEPT !.connected = @ \cup {c},
                              !.metrics.connected_clients =
                                 Cardinality(connected_clients \cup {c})]
         r == SendToClient(S1, c, [type |-> "connection_established", client_id |-> c])
     IN  /\ Install(r.s)
         /\ IF r.susp THEN Suspend(c, NoCont)
            ELSE pc' = [pc EXCEPT ![c] = "idle"] /\ UNCHANGED cont
  /\ lastEmit' = NoEmit
  /\ TakesInput
  /\ UNCHANGED <<ws, active_streams, now, otherVars>>

\* the peer closes the transport, gracefully or abruptly
ClientClose(c) ==
  /\ pc[c] \in {"idle", "sending"}
  /\ ws[c] = "open"
  /\ ws' = [ws EXCEPT ![c] = "closed"]
  /\ TakesInput
  /\ UNCHANGED <<pc, cont, connected_clients, client_subscriptions, active_streams,
                 metrics, events_since, reply, now,
                 sentAfterClose, emitCalls, otherVars>>
  /\ lastEmit' = NoEmit

\* mutant: the cleanup removes the connection table entry only
TeardownTableOnly(c) ==
  /\ pc[c] = "idle"
  /\ ws[c] = "closed"
  /\ pc' = [pc EXCEPT ![c] = "closed"]
  /\ connected_clients' = connected_clients \ {c}
  /\ metrics' = [metrics EXCEPT !.connected_clients =
                                   Cardinality(connected_clients \ {c})]
  /\ UNCHANGED <<ws, cont, client_subscriptions, active_streams, events_since, reply,
                 now, inputs, sentAfterClose, emitCalls, otherVars>>
  /\ lastEmit' = NoEmit

\* mutant: the cleanup of the finally block is left out
TeardownNoCleanup(c) ==
  /\ pc[c] = "idle"
  /\ ws[c] = "closed"
  /\ pc' = [pc EXCEPT ![c] = "closed"]
  /\ UNCHANGED <<ws, cont, connected_clients, client_subscriptions, active_streams,
                 metrics, events_since, reply, now, inputs,
                 sentAfterClose, emitCalls, otherVars>>
  /\ lastEmit' = NoEmit

\* _handle_client lines 122-132: the message loop ends on the closed
\* transport and the finally block runs, with no await in it
Teardown(c) ==
  /\ pc[c] = "idle"
  /\ ws[c] = "closed"
  /\ pc' = [pc EXCEPT ![c] = "closed"]
  /\ connected_clients' = connected_clients \ {c}
  /\ client_subscriptions' = SubDelete(client_subscriptions, c)
  /\ metrics' = [metrics EXCEPT !.connected_clients =
                                   Cardinality(connected_clients \ {c})]
  /\ lastEmit' = NoEmit
  /\ UNCHANGED <<ws, cont, active_streams, events_since, reply, now, inputs,
                 sentAfterClose, emitCalls, otherVars>>


\* mutant: the filter is stored before its event kinds are decoded
HandleSubscriptionStoresFirst(c, fd) ==
  /\ Receives(c)
  /\ LET f == DecodeFilter(fd)
         S1 == [Server EXCEPT !.subs = SubAppend(@, c, f)]
     IN  IF ~FilterDecodes(fd)
         THEN ReplyAndReturn(c, SendToClient(S1, c, [type |-> "subscription_error"]))
         ELSE ReplyAndReturn(c,
                SendToClient(S1, c,
                  [type |-> "subscription_confirmed", filter |-> f,
                   subscription_id |-> Len(FiltersOf(S1.subs, c)) - 1]))
  /\ lastEmit' = NoEmit
  /\ UNCHANGED <<ws, active_streams, now>>

\* _handle_subscription (lines 168-194) for the decoded "filter" object fd
HandleSubscription(c, fd) ==
  /\ Receives(c)
  /\ IF ~FilterDecodes(fd)
     THEN \* EventType(et) raises ValueError: the except branch of line 190
          ReplyAndReturn(c, SendToClient(Server, c, [type |-> "subscription_error"]))
     ELSE LET f == DecodeFilter(fd)
              S1 == [Server EXCEPT !.subs = SubAppend(@, c, f)]
          IN  ReplyAndReturn(c,
                SendToClient(S1, c,
                  [type |-> "subscription_confirmed", filter |-> f,
                   subscription_id |-> Len(FiltersOf(S1.subs, c)) - 1]))
  /\ lastEmit' = NoEmit
  /\ UNCHANGED <<ws, active_streams, now>>

\* _handle_unsubscription (lines 196-212); sid is data.get("subscription_id")
HandleUnsubscription(c, sid) ==
  /\ Receives(c)
  /\ IF c \in SubKeys(client_subscriptions)
     THEN LET i == SubIndex(client_subscriptions, c)
              list == client_subscriptions[i].filters
          IN  IF sid # None /\ 0 <= The(sid) /\ The(sid) < Len(list)
              THEN ReplyAndReturn(c,
                     SendToClient(
                       [Server EXCEPT !.subs[i].filters = ListDelete(list, The(sid))],
                       c, [type |-> "unsubscription_confirmed",
                           subscription_id |-> The(sid)]))
              ELSE ReplyAndReturn(c,
                     SendToClient([Server EXCEPT !.subs[i].filters = <<>>],
                                  c, [type |-> "all_subscriptions_cleared"]))
     ELSE ReplyAndReturn(c, [s |-> Server, susp |-> FALSE])
  /\ lastEmit' = NoEmit
  /\ UNCHANGED <<ws, active_streams, now>>

\* mutant: the stream is registered and confirmed, but no event is emitted
HandleCreateStreamNoEmit(c, spec, t) ==
  /\ Receives(c)
  /\ now' = t
  /\ LET sid == StreamId(c, spec, t)
         streams == StreamPut(active_streams, sid, c, spec, t)
         S1 == [Server EXCEPT !.metrics.active_streams = Cardinality(DOMAIN streams)]
     IN  /\ active_streams' = streams
         /\ ReplyAndReturn(c, SendToClient(S1, c, [type |-> "stream_created",
                                                   stream_id |-> sid]))
         /\ lastEmit' = NoEmit
  /\ UNCHANGED ws

\* _handle_create_stream (lines 214-253).  The reply is sent first; the
\* stream_created event is emitted when the send returns.
HandleCreateStream(c, spec, t) ==
  /\ Receives(c)
  /\ now' = t
  /\ LET sid == StreamId(c, spec, t)
         streams == StreamPut(active_streams, sid, c, spec, t)
         S1 == [Server EXCEPT !.metrics.active_streams = Cardinality(DOMAIN streams)]
         r == SendToClient(S1, c, [type |-> "stream_created", stream_id |-> sid])
         ev == StreamCreatedEvent(sid)
     IN  /\ active_streams' = streams
         /\ IF r.susp
            THEN /\ Install(r.s)
                 /\ Suspend(c, [k |-> "emit", event |-> ev])
                 /\ lastEmit' = NoEmit
            ELSE LET T == EmitEvent(r.s, ev)
                 IN  /\ lastEmit' = EmitRecord(r.s, T, ev)
                     /\ IF T.raised
                        THEN \* the except branch of line 247
                             ReplyAndReturn(c,
                               SendToClient(T, c, [type |-> "stream_creation_error"]))
                        ELSE Install(T) /\ UNCHANGED <<pc, cont>>
  /\ UNCHANGED ws

\* mutant: the event is emitted before the stream id is looked up
HandleProofSubmissionEmitsFirst(c, sid, arch) ==
  /\ Receives(c)
  /\ LET ev == ProofSubmittedEvent(sid, c, arch)
         T == EmitEvent(Server, ev)
     IN  /\ lastEmit' = EmitRecord(Server, T, ev)
         /\ IF sid \notin DOMAIN active_streams
            THEN /\ UNCHANGED active_streams
                 /\ ReplyAndReturn(c,
                      SendToClient(T, c, [type |-> "proof_submission_error"]))
            ELSE /\ active_streams' = [active_streams EXCEPT ![sid].event_count = @ + 1]
                 /\ ReplyAndReturn(c,
                      SendToClient(T, c, [type |-> "proof_submitted", stream_id |-> sid,
                                          status |-> "accepted"]))
  /\ UNCHANGED <<ws, now>>

\* _handle_proof_submission (lines 255-291); arch is data.get("architecture")
HandleProofSubmission(c, sid, arch) ==
  /\ Receives(c)
  /\ IF sid \notin DOMAIN active_streams
     THEN \* ValueError of line 263: the except branch of line 287
          /\ ReplyAndReturn(c, SendToClient(Server, c, [type |-> "proof_submission_error"]))
          /\ lastEmit' = NoEmit
          /\ UNCHANGED active_streams
     ELSE LET ev == ProofSubmittedEvent(sid, c, arch)
              T == EmitEvent(Server, ev)
          IN  /\ lastEmit' = EmitRecord(Server, T, ev)
              /\ IF T.raised
                 THEN \* line 279 is not reached: the except branch of line 287
                      /\ UNCHANGED active_streams
                      /\ ReplyAndReturn(c,
                           SendToClient(T, c, [type |-> "proof_submission_error"]))
                 ELSE /\ active_streams' =
                           [active_streams EXCEPT ![sid].event_count = @ + 1]
                      /\ ReplyAndReturn(c,
                           SendToClient(T, c, [type |-> "proof_submitted",
                                               stream_id |-> sid,
                                               status |-> "accepted"]))
  /\ UNCHANGED <<ws, now>>

\* the ping branch of _handle_client_message (lines 148-149)
HandlePing(c) ==
  /\ Receives(c)
  /\ ReplyAndReturn(c, SendToClient(Server, c, [type |-> "pong"]))
  /\ lastEmit' = NoEmit
  /\ UNCHANGED <<ws, active_streams, now>>

\* what follows the send a task was suspended in
Resume(c, S) ==
  /\ LET S0 == [S EXCEPT !.reply[c] = None]
     IN  IF cont[c].k = "emit"
         THEN LET T == EmitEvent(S0, cont[c].event)
                  r == SendToClient(T, c, [type |-> "stream_creation_error"])
              IN  /\ lastEmit' = EmitRecord(S0, T, cont[c].event)
                  /\ cont' = [cont EXCEPT ![c] = NoCont]
                  /\ IF T.raised /\ r.susp
                     THEN \* the except branch of line 247 sends its reply
                          Install(r.s) /\ UNCHANGED pc
                     ELSE /\ Install(IF T.raised THEN r.s ELSE T)
                          /\ pc' = [pc EXCEPT ![c] = "idle"]
         ELSE /\ Install(S0)
              /\ lastEmit' = NoEmit
              /\ pc' = [pc EXCEPT ![c] = "idle"]
              /\ cont' = [cont EXCEPT ![c] = NoCont]
  /\ UNCHANGED <<ws, active_streams, now, inputs>>
  /\ UNCHANGED otherVars

\* websocket.send returns (line 358)
SendCompletes(c) ==
  /\ pc[c] = "sending"
  /\ Resume(c, Server)

\* websocket.send raises on a transport closed under it (lines 359-363)
SendRaises(c) ==
  /\ pc[c] = "sending"
  /\ ws[c] = "closed"
  /\ Resume(c, SendFailure(Server, c))

\* broadcast_verification_complete (lines 386-400), called by a collaborator
BroadcastVerificationComplete(agent, arch) ==
  /\ TakesInput
  /\ LET ev == VerificationCompleteEvent(agent, arch)
         T == EmitEvent(Server, ev)
     IN  Install(T) /\ lastEmit' = EmitRecord(Server, T, ev)
  /\ UNCHANGED <<pc, ws, cont, active_streams, now, otherVars>>

\* mutant: a frame that cannot be decoded ends the connection
HandleFrameDropsConnection(c) ==
  /\ Receives(c)
  /\ connected_clients' = connected_clients \ {c}
  /\ lastEmit' = NoEmit
  /\ UNCHANGED <<pc, ws, cont, client_subscriptions, active_streams, metrics,
                 events_since, reply, now, sentAfterClose, emitCalls>>

\* _handle_client_message lines 137, 156-160: json.loads raises
\* JSONDecodeError on the frame
HandleInvalidJson(c) ==
  /\ Receives(c)
  /\ ReplyAndReturn(c,
       SendToClient(Server, c, [type |-> "error", message |-> "Invalid JSON format"]))
  /\ lastEmit' = NoEmit
  /\ UNCHANGED <<ws, active_streams, now>>

\* _handle_client_message lines 150-154: the type is none of the five known
HandleUnknownType(c) ==
  /\ Receives(c)
  /\ ReplyAndReturn(c,
       SendToClient(Server, c, [type |-> "error", message |-> "Unknown message type"]))
  /\ lastEmit' = NoEmit
  /\ UNCHANGED <<ws, active_streams, now>>

\* _handle_unsubscription for a subscription_id that is not a number: the
\* comparison of line 201 raises TypeError, which nothing in the handler
\* catches; the except branch of _handle_client_message (lines 161-166)
\* answers.  Line 201 is not reached when the connection has no entry.
HandleUnsubscriptionBadId(c) ==
  /\ Receives(c)
  /\ IF c \in SubKeys(client_subscriptions)
     THEN ReplyAndReturn(c,
            SendToClient(Server, c, [type |-> "error", message |-> "TypeError"]))
     ELSE ReplyAndReturn(c, [s |-> Server, susp |-> FALSE])
  /\ lastEmit' = NoEmit
  /\ UNCHANGED <<ws, active_streams, now>>

\* add_event_handler (lines 382-384), called by a collaborator
AddEventHandler(kind, h) ==
  /\ Len(event_handlers["verification_complete"])
       + Len(event_handlers["chain_step_added"]) < MaxHandlers
  /\ event_handlers' = [event_handlers EXCEPT ![kind] = Append(@, h)]
  /\ lastEmit' = NoEmit
  /\ UNCHANGED <<pc, ws, cont, connected_clients, client_subscriptions,
                 active_streams, metrics, events_since, reply, now, inputs,
                 sentAfterClose, emitCalls, matchVars, last_metrics_update,
                 consumed, life, client>>

\* broadcast_chain_step_added (lines 402-415), called by a collaborator
BroadcastChainStepAdded(chain, agent, arch) ==
  /\ TakesInput
  /\ LET ev == ChainStepAddedEvent(chain, agent, arch)
         T == EmitEvent(Server, ev)
     IN  Install(T) /\ lastEmit' = EmitRecord(Server, T, ev)
  /\ UNCHANGED <<pc, ws, cont, active_streams, now, otherVars>>

\* broadcast_agent_registered (lines 417-428), called by a collaborator
BroadcastAgentRegistered(agent) ==
  /\ metrics.total_events < MaxEmits
  /\ LET ev == AgentRegisteredEvent(agent)
         T == EmitEvent(Server, ev)
     IN  Install(T) /\ lastEmit' = EmitRecord(Server, T, ev)
  /\ UNCHANGED <<pc, ws, cont, active_streams, now, inputs, otherVars>>

\* mutant: the tick leaves the since-last-tick counter as it is
MetricsTickKeepsCount(t) ==
  /\ LET time_delta == t - last_metrics_update
     IN  metrics' = IF time_delta > 0
                    THEN [metrics EXCEPT !.events_per_second =
                                            Ratio(events_since, time_delta)]
                    ELSE metrics
  /\ last_metrics_update' = t
  /\ events_since' = events_since
  /\ consumed' = consumed + events_since
  /\ now' = t
  /\ lastEmit' = NoEmit
  /\ UNCHANGED <<pc, ws, cont, connected_clients, client_subscriptions,
                 active_streams, reply, inputs, sentAfterClose, emitCalls, matchVars,
                 event_handlers, life, client>>


\* one pass of the loop of _update_metrics_loop (lines 370-377), after the
\* sleep of line 368; t is the reading of time.time() at line 370
TickBody(t) ==
  /\ LET time_delta == t - last_metrics_update
     IN  metrics' = IF time_delta > 0
                    THEN [metrics EXCEPT !.events_per_second =
                                            Ratio(events_since, time_delta)]
                    ELSE metrics
  /\ last_metrics_update' = t
  /\ events_since' = 0
  /\ consumed' = consumed + events_since
  /\ now' = t
  /\ lastEmit' = NoEmit
  /\ UNCHANGED <<pc, ws, cont, connected_clients, client_subscriptions,
                 active_streams, reply, inputs, sentAfterClose, emitCalls, matchVars,
                 event_handlers, client>>

\* a pass of the loop in a broker that stays up: the task sleeps again
MetricsTick(t) == TickBody(t) /\ UNCHANGED life

\* ------------------------------------------------- start, stop, metrics task
\* start_server (lines 81-85) up to its wait of line 88: websockets.serve
\* returns (the address is free, so no server of this broker is open),
\* running is set and a metrics task is created, which finds running set
\* and goes to sleep (lines 367-368)
StartServer ==
  /\ life.server # "open"
  /\ Len(life.tasks) < MaxStarts
  /\ life' = [life EXCEPT !.server = "open", !.running = TRUE,
                           !.tasks = Append(@, [pc |-> "sleeping", stopped |-> FALSE,
                                                after |-> 0])]
  /\ lastEmit' = NoEmit
  /\ UNCHANGED <<pc, ws, cont, connected_clients, client_subscriptions,
                 active_streams, metrics, events_since, reply, now, inputs,
                 sentAfterClose, emitCalls, matchVars, event_handlers,
                 last_metrics_update, consumed, client>>

\* stop_server lines 92-94: with a server object, close it and wait
StopServerBegins ==
  /\ life.server # "none"
  /\ ~life.stopping
  /\ life' = [life EXCEPT !.server = "closed", !.stopping = TRUE]
  /\ lastEmit' = NoEmit
  /\ UNCHANGED <<pc, ws, cont, connected_clients, client_subscriptions,
                 active_streams, metrics, events_since, reply, now, inputs,
                 sentAfterClose, emitCalls, matchVars, event_handlers,
                 last_metrics_update, consumed, client>>

\* stop_server line 95, when wait_closed has returned: running is cleared.
\* History: the metrics tasks alive now have seen a stop complete.
StopServerCompletes ==
  /\ life.stopping
  /\ life' = [life EXCEPT
                 !.running = FALSE, !.stopping = FALSE,
                 !.tasks = [i \in DOMAIN life.tasks |->
                              IF life.tasks[i].pc = "sleeping" /\ ~life.tasks[i].stopped
                              THEN [life.tasks[i] EXCEPT !.stopped = TRUE]
                              ELSE life.tasks[i]]]
  /\ lastEmit' = NoEmit
  /\ UNCHANGED <<pc, ws, cont, connected_clients, client_subscriptions,
                 active_streams, metrics, events_since, reply, now, inputs,
                 sentAfterClose, emitCalls, matchVars, event_handlers,
                 last_metrics_update, consumed, client>>

\* the readings of time.time() after the sleep of a metrics task; the
\* largest reading repeats
WakeReadings == IF now < MaxClock THEN LaterReadings(MaxClock) ELSE {MaxClock}

\* _update_metrics_loop (lines 367-380) for the i-th metrics task: its
\* sleep ends, the pass runs, and `while self.running` decides whether the
\* task sleeps again or returns.  History: after counts the passes made
\* since a stop_server completed (2 stands for two or more).
MetricsWake(i, t) ==
  /\ i \in DOMAIN life.tasks
  /\ life.tasks[i].pc = "sleeping"
  /\ TickBody(t)
  /\ life' = [life EXCEPT
                 !.tasks[i].after = IF life.tasks[i].stopped /\ @ < 2 THEN @ + 1 ELSE @,
                 !.tasks[i].pc = IF life.running THEN "sleeping" ELSE "done"]

LifecycleInit ==
  /\ BrokerInit
  /\ life = ServerConstructed
  /\ client = ClientConstructed
  /\ mEvent = StreamCreatedEvent(UnknownStream)
  /\ mFilters = <<>>
  /\ mResult = FALSE
  /\ mPhase = "off"

LifecycleNext ==
  \/ StartServer
  \/ StopServerBegins
  \/ StopServerCompletes
  \/ \E i \in 1..MaxStarts, t \in WakeReadings : MetricsWake(i, t)

\* asyncio runs every timer that is due and every task that is ready: a
\* sleeping metrics task wakes, and wait_closed returns
LifecycleFairness ==
  /\ \A i \in 1..MaxStarts : WF_vars(\E t \in WakeReadings : MetricsWake(i, t))
  /\ WF_vars(StopServerCompletes)

LifecycleSpec == LifecycleInit /\ [][LifecycleNext]_vars /\ LifecycleFairness

\* the broker is started once
StartedOnceNext ==
  \/ Len(life.tasks) = 0 /\ StartServer
  \/ StopServerBegins
  \/ StopServerCompletes
  \/ \E i \in 1..MaxStarts, t \in WakeReadings : MetricsWake(i, t)

StartedOnceSpec == LifecycleInit /\ [][StartedOnceNext]_vars /\ LifecycleFairness

Next ==
  \/ \E c \in Clients : Connect(c)
  \/ \E c \in Clients : ClientClose(c)
  \/ \E c \in Clients : Teardown(c)
  \/ \E c \in Clients, fd \in SubscribeFilters : HandleSubscription(c, fd)
  \/ \E c \in Clients, sid \in UnsubscribeIds : HandleUnsubscription(c, sid)
  \/ \E c \in Clients, sp \in StreamSpecs, t \in ClockReadings : HandleCreateStream(c, sp, t)
  \/ \E c \in Clients, sid \in ProofStreamIds, a \in ProofArchitectures : HandleProofSubmission(c, sid, a)
  \/ \E c \in Clients : HandlePing(c)
  \/ \E c \in Clients : SendCompletes(c)
  \/ \E c \in Clients : SendRaises(c)
  \/ \E g \in Agents, a \in Architectures : BroadcastVerificationComplete(g, a)

Spec == Init /\ [][Next]_vars

\* ---------------------------------------- frames that cannot be handled
FrameNext ==
  \/ \E c \in Clients : Connect(c)
  \/ \E c \in Clients, fd \in SubscribeFilters : HandleSubscription(c, fd)
  \/ \E c \in Clients : HandleUnsubscriptionBadId(c)
  \/ \E c \in Clients : HandleInvalidJson(c)
  \/ \E c \in Clients : HandleUnknownType(c)
  \/ \E c \in Clients : HandlePing(c)
  \/ \E c \in Clients, sp \in StreamSpecs, t \in ClockReadings : HandleCreateStream(c, sp, t)
  \/ \E c \in Clients, sid \in ProofStreamIds, a \in ProofArchitectures : HandleProofSubmission(c, sid, a)
  \/ \E c \in Clients : SendCompletes(c)

FrameSpec == Init /\ [][FrameNext]_vars

\* ------------------------------------------------------ event handlers
HandlerKinds == {"verification_complete", "chain_step_added"}

Chains == {"ch1"}

HandlerNext ==
  \/ \E k \in HandlerKinds, h \in Handlers : AddEventHandler(k, h)
  \/ \E c \in Clients : Connect(c)
  \/ \E c \in Clients : HandleSubscription(c, StreamFilter(None, None, None, None, None))
  \/ \E c \in Clients : SendCompletes(c)
  \/ \E g \in Agents : BroadcastVerificationComplete(g, "RWKV")
  \/ \E ch \in Chains, g \in Agents : BroadcastChainStepAdded(ch, g, "RWKV")

HandlerSpec == Init /\ [][HandlerNext]_vars

\* ------------------------------------------------- the metrics collector
\* the notification helper and the tick
MetricsNext ==
  \/ \E g \in Agents : BroadcastAgentRegistered(g)
  \/ \E t \in LaterReadings(MaxClock) : MetricsTick(t)

MetricsSpec == Init /\ [][MetricsNext]_vars

\* the broker with its metrics task running
TickingFilters ==
  {StreamFilter(None, None, None, None, None),
   StreamFilter(None, None, Some(<<"proof_submitted">>), None, None)}

TickingUnsubscribeIds == {None, Some(0)}

TickingNext ==
  \/ \E c \in Clients : Connect(c)
  \/ \E c \in Clients : ClientClose(c)
  \/ \E c \in Clients : Teardown(c)
  \/ \E c \in Clients, fd \in TickingFilters : HandleSubscription(c, fd)
  \/ \E c \in Clients, sid \in TickingUnsubscribeIds : HandleUnsubscription(c, sid)
  \/ \E c \in Clients, sp \in StreamSpecs, t \in ClockReadings : HandleCreateStream(c, sp, t)
  \/ \E c \in Clients, sid \in ProofStreamIds : HandleProofSubmission(c, sid, None)
  \/ \E c \in Clients : HandlePing(c)
  \/ \E c \in Clients : SendCompletes(c)
  \/ \E c \in Clients : SendRaises(c)
  \/ \E g \in Agents : BroadcastVerificationComplete(g, "RWKV")
  \/ \E t \in LaterReadings(MaxTime) : MetricsTick(t)

TickingSpec == Init /\ [][TickingNext]_vars

\* ------------------------------------- the matching engine on its own
MatchKinds == EventType
MatchArchitectures == {None, Some("RWKV"), Some("Mamba")}
MatchAgents == {None, Some("a1")}
MatchSubmitters == {None, Some("c1")}
MatchQualities == {None, Some(-1), Some(1)}
MatchChains == {None, Some("ch1")}

MatchEvents ==
  {StreamEvent(k, <<"global">>, a, g, s, q, ch) :
     k \in MatchKinds, a \in MatchArchitectures, g \in MatchAgents,
     s \in MatchSubmitters, q \in MatchQualities, ch \in MatchChains}

MatchFilters ==
  {StreamFilter(a, g, k, t, ch) :
     a \in {None, Some(<<"RWKV">>)}, g \in {None, Some(<<"a1">>), Some(<<"c1">>)},
     k \in {None, Some(<<>>), Some(<<"proof_submitted">>)},
     t \in {None, Some(0), Some(1)}, ch \in {None, Some("ch1")}}

MatchFilterLists == {<<>>} \cup {<<f>> : f \in MatchFilters}

\* the engine is about to be called on an event and a filter list
MatchInit ==
  /\ BrokerInit
  /\ life = ServerStarted
  /\ client = ClientConstructed
  /\ mEvent \in MatchEvents
  /\ mFilters \in MatchFilterLists
  /\ mResult = FALSE
  /\ mPhase = "call"

\* the call of _event_matches_filters returns
MatchApply ==
  /\ mPhase = "call"
  /\ mResult' = EventMatchesFilters(mEvent, mFilters)
  /\ mPhase' = "done"
  /\ UNCHANGED <<mEvent, mFilters>>
  /\ UNCHANGED <<brokerVars, life, client>>

MatchNext == MatchApply

MatchSpec == MatchInit /\ [][MatchNext]_vars

\* ------------------------- the matching engine on sequences of filters
MatchListEvents ==
  {StreamEvent(k, <<"global">>, a, g, None, q, None) :
     k \in {"proof_submitted", "stream_created"}, a \in MatchArchitectures,
     g \in MatchAgents, q \in MatchQualities}

MatchListFilterSet ==
  {StreamFilter(a, g, k, t, None) :
     a \in {None, Some(<<"RWKV">>)}, g \in {None, Some(<<"a1">>)},
     k \in {None, Some(<<"proof_submitted">>)}, t \in {None, Some(0), Some(1)}}

MatchListLists ==
  {<<f>> : f \in MatchListFilterSet}
    \cup {<<f, g>> : f \in MatchListFilterSet, g \in MatchListFilterSet}

\* the engine is about to be called on an event and a non-empty filter list
MatchListInit ==
  /\ BrokerInit
  /\ life = ServerStarted
  /\ client = ClientConstructed
  /\ mEvent \in MatchListEvents
  /\ mFilters \in MatchListLists
  /\ mResult = FALSE
  /\ mPhase = "call"

MatchListSpec == MatchListInit /\ [][MatchNext]_vars

\* ------------------------------------------------- ProofStreamingClient
\* What the client's methods leave alone: the whole broker.
ClientStep ==
  /\ client.calls < MaxCalls
  /\ UNCHANGED <<brokerVars, life, matchVars>>

\* connect (lines 440-449); ok: websockets.connect returns a channel.
\* Otherwise it raises and line 449 raises again.
ClientConnect(ok) ==
  /\ ClientStep
  /\ client.websocket # "open"
  /\ client.reader # "iterating"
  /\ client' = IF ok
               THEN [client EXCEPT !.websocket = "open", !.connected = TRUE,
                                   !.reader = "iterating", !.closing = "none",
                                   !.calls = @ + 1, !.outcome = "connected",
                                   !.last = "connect"]
               ELSE [client EXCEPT !.calls = @ + 1, !.outcome = "raised",
                                   !.last = "connect"]

\* disconnect (lines 451-455)
ClientDisconnect ==
  /\ ClientStep
  /\ client' = IF client.websocket # "none"
               THEN [client EXCEPT !.websocket = "closed", !.connected = FALSE,
                                   !.closing = IF client.websocket = "open"
                                               THEN "local" ELSE @,
                                   !.calls = @ + 1, !.outcome = "returned",
                                   !.last = "disconnect"]
               ELSE [client EXCEPT !.calls = @ + 1, !.outcome = "returned",
                                   !.last = "disconnect"]

ClientRequests == {"subscribe", "submit_proof", "create_stream"}

\* subscribe, submit_proof and create_stream (lines 457-493) build a message
\* and await _send_message (lines 495-500): ConnectionError unless connected
\* and a channel exists; websocket.send raises ConnectionClosed on a closed
\* channel
ClientRequest(kind) ==
  /\ ClientStep
  /\ client' = IF ~client.connected \/ client.websocket = "none"
               THEN [client EXCEPT !.calls = @ + 1,
                                   !.outcome = "ConnectionError", !.last = kind]
               ELSE IF client.websocket = "open"
               THEN [client EXCEPT !.sent = @ + 1, !.calls = @ + 1,
                                   !.outcome = "sent", !.last = kind]
               ELSE [client EXCEPT !.calls = @ + 1,
                                   !.outcome = "ConnectionClosed", !.last = kind]

\* how the peer may end the channel: with a close frame of code 1000 or
\* 1001 ("normal"), or any other way ("abnormal")
PeerCloses == {"normal", "abnormal"}

\* the server side closes the channel
ChannelClosedByPeer(how) ==
  /\ client.websocket = "open"
  /\ client' = [client EXCEPT !.websocket = "closed", !.closing = how]
  /\ UNCHANGED <<brokerVars, life, matchVars>>

\* _handle_messages (lines 502-520) meets the closed channel: the iteration
\* of line 505 raises ConnectionClosed after an abnormal close (line 517
\* clears connected) and just ends after a close handshake, the client's own
\* or the peer's
ReaderObservesClose ==
  /\ client.reader = "iterating"
  /\ client.websocket = "closed"
  /\ client' = [client EXCEPT !.reader = "ended",
                               !.connected = IF client.closing = "abnormal"
                                             THEN FALSE ELSE @]
  /\ UNCHANGED <<brokerVars, life, matchVars>>

ClientNext ==
  \/ \E ok \in BOOLEAN : ClientConnect(ok)
  \/ ClientDisconnect
  \/ \E k \in ClientRequests : ClientRequest(k)
  \/ \E how \in PeerCloses : ChannelClosedByPeer(how)
  \/ ReaderObservesClose

ClientSpec == Init /\ [][ClientNext]_vars

\* ------------------------------- filters whose fields have the wrong type
IllTypedFilters ==
  {StreamFilter(None, None, None, None, None),
   StreamFilter(Some(NotIterable), None, None, None, None)}

IllTypedNext ==
  \/ \E c \in Clients : Connect(c)
  \/ \E c \in Clients, fd \in IllTypedFilters : HandleSubscription(c, fd)
  \/ \E c \in Clients, sp \in StreamSpecs, t \in ClockReadings : HandleCreateStream(c, sp, t)
  \/ \E c \in Clients, sid \in ProofStreamIds : HandleProofSubmission(c, sid, None)
  \/ \E c \in Clients : SendCompletes(c)
  \/ \E g \in Agents : BroadcastVerificationComplete(g, "RWKV")
  \/ AddEventHandler("verification_complete", "h1")

IllTypedSpec == Init /\ [][IllTypedNext]_vars


\* ------------------------------------------------------------ claims
\* what the latest step's _emit_event saw
Emitted == lastEmit.n > 0

\* c was in the connection table with an open transport when the emit began
OpenAtEmit(c) == c \in lastEmit.before /\ c \in lastEmit.wsopen

\* the filter list c held when the emit began (<<>> when it had no entry)
FiltersAtEmit(c) == FiltersOf(lastEmit.subs, c)

\* some filter of the list has all its declared constraints satisfied
SomeFilterAccepts(event, filters) ==
  \E j \in 1..Len(filters) : FilterAccepts(event, filters[j])

\* the connections whose send failed during the emit (line 363)
FailedAtEmit == lastEmit.before \ lastEmit.after

\* C1: for every emit(E), a connection that is Open and holds a non-empty
\* filter list receives the stream_event carrying E exactly when one of its
\* filters matches E, and is still in the connection table afterwards.
C1_MatchingOpenConnectionsReceive ==
  Emitted =>
    \A c \in Clients :
      (OpenAtEmit(c) /\ Len(FiltersAtEmit(c)) > 0) =>
        /\ c \in lastEmit.after
        /\ c \in lastEmit.delivered <=> SomeFilterAccepts(lastEmit.event, FiltersAtEmit(c))

\* C2: an accepted connection is registered with an empty filter list, and an
\* Open connection whose filter list is empty receives every emitted event.
C2_EmptyListReceivesEverything ==
  /\ \A c \in connected_clients : c \in SubKeys(client_subscriptions)
  /\ Emitted =>
       \A c \in Clients :
         (OpenAtEmit(c) /\ Len(FiltersAtEmit(c)) = 0) => c \in lastEmit.delivered

\* Supporting fact for C3, C8 and C9: no emit hands a stream_event to any
\* websocket, because json.dumps raises on every stream_event (line 358).
NoStreamEventDelivered == Emitted => lastEmit.delivered = {}

\* C4: once the teardown of a connection has run, no frame is handed to its
\* websocket, no send to it passes the guard of line 353, and no emit
\* delivers to it.
C4_NoSendAfterTeardown ==
  /\ sentAfterClose = {}
  /\ \A c \in Clients :
       pc[c] = "closed" =>
         /\ reply[c] = None
         /\ Emitted => c \notin lastEmit.delivered

\* C4 witness: an emit ran over a non-empty registry after a teardown
C4_Witness ==
  \E c \in Clients :
    /\ pc[c] = "closed"
    /\ Emitted
    /\ c \in lastEmit.torn
    /\ Len(lastEmit.subs) > 0

C6_SendFailureRemovesSubscription ==
  \A c \in Clients :
    (pc[c] \in {"idle", "sending"} /\ c \notin connected_clients) =>
      c \notin SubKeys(client_subscriptions)

\* C7: within one emit(E), when the send to one matching connection fails,
\* every other matching Open connection still has E delivered.
C7_FailedSendDoesNotBlockOthers ==
  Emitted =>
    \A c \in FailedAtEmit :
      \A d \in Clients \ {c} :
        (OpenAtEmit(d) /\ d \in SubKeys(lastEmit.subs)
           /\ EventMatchesFilters(lastEmit.event, FiltersAtEmit(d)))
          => d \in lastEmit.delivered

\* C10: the matching engine answers TRUE for the empty filter sequence,
\* whatever the kind and content of the event.
C10_EmptyFilterListMatches ==
  (mPhase = "done" /\ mFilters = <<>>) => mResult = TRUE

\* C10 witness: the engine was applied to the empty sequence and an event
\* that carries content a filter could reject
C10_Witness ==
  /\ mPhase = "done"
  /\ mFilters = <<>>
  /\ mEvent.event_type = "operad_completed"
  /\ mEvent.data.quality_score = Some(-1)
  /\ mEvent.data.architecture = Some("Mamba")

\* The constraints a filter declares and an event fails.  A set constraint is
\* declared when the set is set and non-empty; a threshold or a chain id is
\* declared when it is set, whatever its value.
KindUnsatisfied(event, f) ==
  TruthyList(f.event_types) /\ ~InList(event.event_type, The(f.event_types))

ArchitectureUnsatisfied(event, f) ==
  TruthyList(f.architectures)
    /\ ~InOptList(event.data.architecture, The(f.architectures))

AgentUnsatisfied(event, f) ==
  TruthyList(f.agents) /\ ~InOptList(AgentOf(event), The(f.agents))

ThresholdUnsatisfied(event, f) ==
  f.quality_threshold # None /\ QualityOf(event) < The(f.quality_threshold)

ChainUnsatisfied(event, f) ==
  f.chain_id # None /\ event.data.chain_id # f.chain_id

UnsatisfiedCount(event, f) ==
  (IF KindUnsatisfied(event, f) THEN 1 ELSE 0)
    + (IF ArchitectureUnsatisfied(event, f) THEN 1 ELSE 0)
    + (IF AgentUnsatisfied(event, f) THEN 1 ELSE 0)
    + (IF ThresholdUnsatisfied(event, f) THEN 1 ELSE 0)
    + (IF ChainUnsatisfied(event, f) THEN 1 ELSE 0)

\* C11: for a single filter F, matches(E, [F]) is true when E satisfies every
\* constraint F declares, and false when exactly one declared constraint of F
\* has a value E does not satisfy (the others being satisfied).
C11_SingleFilterDeclaredConstraints ==
  (mPhase = "done" /\ Len(mFilters) = 1) =>
    /\ UnsatisfiedCount(mEvent, mFilters[1]) = 0 => mResult = TRUE
    /\ UnsatisfiedCount(mEvent, mFilters[1]) = 1 => mResult = FALSE

\* Supporting fact for C11: the first half holds on its own.
SatisfiedFilterMatches ==
  (mPhase = "done" /\ Len(mFilters) = 1
     /\ UnsatisfiedCount(mEvent, mFilters[1]) = 0) => mResult = TRUE

\* Supporting fact for C11 and C12: a declared constraint the event fails is
\* overlooked only when it is a quality threshold of 0 (falsy at line 337).
OnlyZeroThresholdOverlooked ==
  (mPhase = "done" /\ Len(mFilters) > 0) =>
    (mResult <=>
       \E j \in 1..Len(mFilters) :
         \/ UnsatisfiedCount(mEvent, mFilters[j]) = 0
         \/ /\ UnsatisfiedCount(mEvent, mFilters[j]) = 1
            /\ ThresholdUnsatisfied(mEvent, mFilters[j])
            /\ mFilters[j].quality_threshold = Some(0))

\* the same filters in the opposite order
SwapOrder(filters) ==
  [j \in 1..Len(filters) |-> filters[Len(filters) + 1 - j]]

\* C12: for a non-empty filter sequence, matches(E, filters) is true exactly
\* when some filter of the sequence has all its declared constraints
\* satisfied by E, and the answer is the same for the reversed sequence.
C12_AnyFilterAllConstraints ==
  (mPhase = "done" /\ Len(mFilters) > 0) =>
    /\ mResult <=> \E j \in 1..Len(mFilters) : UnsatisfiedCount(mEvent, mFilters[j]) = 0
    /\ mResult = EventMatchesFilters(mEvent, SwapOrder(mFilters))

\* Supporting fact for C12: the answer is the disjunction over the filters of
\* the per-filter test of lines 321-347, in either order.
MatchIsOrderFreeDisjunction ==
  (mPhase = "done" /\ Len(mFilters) > 0) =>
    /\ mResult <=> SomeFilterAccepts(mEvent, mFilters)
    /\ mResult = EventMatchesFilters(mEvent, SwapOrder(mFilters))

\* c is Open: in the connection table with its transport open
IsOpen(c) == c \in connected_clients /\ ws[c] = "open"

\* C13: a subscribe request with a well-formed filter appends the filter at
\* the end of the requesting connection's list, existing filters keeping their
\* indices, and the subscription_id reported is the length of the list before
\* the request.
C13_SubscribeAppends ==
  [][\A c \in Clients, fd \in SubscribeFilters :
       LET list == FiltersOf(client_subscriptions, c)
       IN  (pc[c] = "idle" /\ FilterDecodes(fd) /\ HandleSubscription(c, fd)) =>
             /\ FiltersOf(client_subscriptions', c) = Append(list, DecodeFilter(fd))
             /\ \A m \in reply'[c] :
                  /\ m.type = "subscription_confirmed"
                  /\ m.subscription_id = Len(list)
             /\ (IsOpen(c) /\ fd.event_types = None) => reply'[c] # None]_vars

\* C13 witness: a second, different filter was appended and reported as
\* subscription 1
C13_Witness ==
  \E c \in Clients :
    /\ \E m \in reply[c] : m.type = "subscription_confirmed" /\ m.subscription_id = 1
    /\ Len(FiltersOf(client_subscriptions, c)) = 2
    /\ FiltersOf(client_subscriptions, c)[1] # FiltersOf(client_subscriptions, c)[2]

\* the subscription_id of an unsubscribe frame is within range of the list
InRange(sid, list) == sid # None /\ 0 <= The(sid) /\ The(sid) < Len(list)

\* C14: an unsubscribe request from an Open connection whose subscription_id
\* is within range removes exactly the filter at that index, keeps the others
\* in their order, and is answered with unsubscription_confirmed carrying
\* that subscription_id.
C14_UnsubscribeInRange ==
  [][\A c \in Clients, sid \in UnsubscribeIds :
       LET list == FiltersOf(client_subscriptions, c)
           new == FiltersOf(client_subscriptions', c)
       IN  (pc[c] = "idle" /\ IsOpen(c) /\ InRange(sid, list)
              /\ HandleUnsubscription(c, sid)) =>
             /\ Len(new) = Len(list) - 1
             /\ \A j \in 1..Len(new) :
                  new[j] = IF j <= The(sid) THEN list[j] ELSE list[j + 1]
             /\ reply'[c] = Some([type |-> "unsubscription_confirmed",
                                  subscription_id |-> The(sid)])]_vars

\* C14 witness: index 0 of a list of two filters was removed and confirmed
C14_Witness ==
  \E c \in Clients :
    /\ \E m \in reply[c] : m.type = "unsubscription_confirmed" /\ m.subscription_id = 0
    /\ Len(FiltersOf(client_subscriptions, c)) = 1

\* C15: an unsubscribe request from an Open connection whose subscription_id
\* is absent or out of range clears all filters of the connection and is
\* answered with all_subscriptions_cleared.
C15_UnsubscribeOutOfRangeClears ==
  [][\A c \in Clients, sid \in UnsubscribeIds :
       (HandleUnsubscription(c, sid) /\ IsOpen(c)
          /\ ~InRange(sid, FiltersOf(client_subscriptions, c))) =>
         /\ FiltersOf(client_subscriptions', c) = <<>>
         /\ reply'[c] = Some([type |-> "all_subscriptions_cleared"])]_vars

\* Supporting fact for C15: the claim holds for a connection that has an
\* entry in client_subscriptions (it has subscribed at least once).
ClearsWhenSubscribedBefore ==
  [][\A c \in Clients, sid \in UnsubscribeIds :
       (HandleUnsubscription(c, sid) /\ IsOpen(c)
          /\ c \in SubKeys(client_subscriptions)
          /\ ~InRange(sid, FiltersOf(client_subscriptions, c))) =>
         /\ FiltersOf(client_subscriptions', c) = <<>>
         /\ c \in SubKeys(client_subscriptions')
         /\ reply'[c] = Some([type |-> "all_subscriptions_cleared"])]_vars

\* C16: every unsubscribe request from an Open connection is answered with
\* unsubscription_confirmed or all_subscriptions_cleared, also when the
\* connection has never subscribed.
C16_UnsubscribeAlwaysAnswered ==
  [][\A c \in Clients, sid \in UnsubscribeIds :
       (HandleUnsubscription(c, sid) /\ IsOpen(c)) =>
         \E m \in reply'[c] :
           m.type \in {"unsubscription_confirmed", "all_subscriptions_cleared"}]_vars

\* C17: every create_stream request returns an id distinct from every id
\* returned before, also for the same connection, the same spec and the same
\* clock reading, so no existing stream record is overwritten.
C17_CreateReturnsFreshId ==
  [][\A c \in Clients, sp \in StreamSpecs, t \in 0..MaxTime :
       HandleCreateStream(c, sp, t) =>
         StreamId(c, sp, t) \notin DOMAIN active_streams]_vars

\* C18: no step lowers the event_count of a stream, and no step removes the
\* record of a registered stream id.
C18_EventCountNeverDecreases ==
  [][\A sid \in DOMAIN active_streams :
       /\ sid \in DOMAIN active_streams'
       /\ active_streams'[sid].event_count >= active_streams[sid].event_count]_vars

\* Supporting fact for C18: the record of a registered stream is never removed.
StreamRecordNeverRemoved ==
  [][DOMAIN active_streams \subseteq DOMAIN active_streams']_vars

\* C19: a submit_proof request from an Open connection naming a registered
\* stream raises that stream's event_count by exactly one, makes exactly one
\* proof_submitted broadcast for it, and is answered with
\* proof_submitted / accepted.
C19_AcceptedSubmissionCounted ==
  [][\A c \in Clients, sid \in DOMAIN active_streams, a \in ProofArchitectures :
       (HandleProofSubmission(c, sid, a) /\ IsOpen(c)) =>
         /\ active_streams'[sid].event_count = active_streams[sid].event_count + 1
         /\ lastEmit'.n = metrics.total_events + 1
         /\ metrics'.total_events = metrics.total_events + 1
         /\ lastEmit'.event.event_type = "proof_submitted"
         /\ lastEmit'.event.stream_id = sid
         /\ reply'[c] = Some([type |-> "proof_submitted", stream_id |-> sid,
                              status |-> "accepted"])]_vars

\* Supporting fact for C19: the count and the single emit are as claimed, and
\* the accepted reply is missing only when the submitter's own connection was
\* dropped from the table by the failed send of that emit.
AcceptedReplyLostOnlyToOwnEmit ==
  [][\A c \in Clients, sid \in DOMAIN active_streams, a \in ProofArchitectures :
       (HandleProofSubmission(c, sid, a) /\ IsOpen(c)) =>
         /\ active_streams'[sid].event_count = active_streams[sid].event_count + 1
         /\ lastEmit'.n = metrics.total_events + 1
         /\ metrics'.total_events = metrics.total_events + 1
         /\ lastEmit'.event.event_type = "proof_submitted"
         /\ lastEmit'.event.stream_id = sid
         /\ \/ reply'[c] = Some([type |-> "proof_submitted", stream_id |-> sid,
                                 status |-> "accepted"])
            \/ c \in lastEmit'.before \ lastEmit'.after]_vars

\* C20: a submit_proof request from an Open connection naming an
\* unregistered stream id is answered with proof_submission_error, emits no
\* event, and leaves the stream registry, every event_count and the global
\* event counters unchanged.
C20_UnknownStreamRejected ==
  [][\A c \in Clients, a \in ProofArchitectures :
       (pc[c] = "idle" /\ IsOpen(c) /\ HandleProofSubmission(c, UnknownStream, a)) =>
         /\ reply'[c] = Some([type |-> "proof_submission_error"])
         /\ lastEmit' = NoEmit
         /\ active_streams' = active_streams
         /\ metrics' = metrics
         /\ events_since' = events_since
         /\ connected_clients' = connected_clients]_vars

\* C20 witness: the error reply is in flight while a stream is registered
\* and a connection is subscribed
C20_Witness ==
  \E c \in Clients :
    /\ reply[c] = Some([type |-> "proof_submission_error"])
    /\ DOMAIN active_streams # {}
    /\ Len(client_subscriptions) > 0

\* the step leaves the registries and the counters as they are and emits
\* nothing
RegistriesUntouched ==
  /\ connected_clients' = connected_clients
  /\ client_subscriptions' = client_subscriptions
  /\ active_streams' = active_streams
  /\ metrics' = metrics
  /\ events_since' = events_since
  /\ lastEmit' = NoEmit

\* C21: a frame from an Open connection that is not valid JSON or has an
\* unknown type is answered with one error reply, leaves connection table,
\* registries and counters unchanged, and the connection's task goes back to
\* its message loop when the reply is sent; ping is answered with pong and
\* changes nothing either.
C21_BadFrameAnsweredWithError ==
  [][\A c \in Clients :
       /\ ((HandleInvalidJson(c) \/ HandleUnknownType(c)) /\ IsOpen(c)) =>
            /\ \E m \in reply'[c] : m.type = "error" /\ reply'[c] = {m}
            /\ RegistriesUntouched
            /\ pc'[c] = "sending" /\ cont'[c] = NoCont
       /\ (HandlePing(c) /\ IsOpen(c)) =>
            /\ reply'[c] = Some([type |-> "pong"])
            /\ RegistriesUntouched
            /\ pc'[c] = "sending" /\ cont'[c] = NoCont
       /\ (SendCompletes(c) /\ cont[c] = NoCont) =>
            /\ pc'[c] = "idle"
            /\ c \in connected_clients <=> c \in connected_clients']_vars

\* C21 witness: the error reply for a frame that is not JSON is in flight
\* while the connection holds a filter and a stream is registered
C21_Witness ==
  \E c \in Clients :
    /\ reply[c] = Some([type |-> "error", message |-> "Invalid JSON format"])
    /\ Len(FiltersOf(client_subscriptions, c)) > 0
    /\ DOMAIN active_streams # {}
    /\ c \in connected_clients

\* the error reply types that name the request they answer
TypedErrors == {"subscription_error", "stream_creation_error", "proof_submission_error"}

\* C22: a fault raised while handling a subscribe, unsubscribe or
\* submit_proof request of an Open connection is answered with an error
\* reply of a type specific to the request, never the generic error type,
\* and the connection's task is not ended.
C22_HandlerFaultsGetTypedReply ==
  [][\A c \in Clients :
       (IsOpen(c)
          /\ \/ \E fd \in SubscribeFilters : ~FilterDecodes(fd) /\ HandleSubscription(c, fd)
             \/ \E a \in ProofArchitectures : HandleProofSubmission(c, UnknownStream, a)
             \/ HandleUnsubscriptionBadId(c) /\ c \in SubKeys(client_subscriptions)) =>
         /\ \E m \in reply'[c] : m.type \in TypedErrors
         /\ pc'[c] # "closed"]_vars

\* Supporting fact for C22: the faults of subscribe and submit_proof are
\* answered with subscription_error and proof_submission_error.
SubscribeAndSubmitFaultsTyped ==
  [][\A c \in Clients :
       /\ (IsOpen(c) /\ \E fd \in SubscribeFilters :
                          ~FilterDecodes(fd) /\ HandleSubscription(c, fd)) =>
            reply'[c] = Some([type |-> "subscription_error"])
       /\ (IsOpen(c) /\ \E a \in ProofArchitectures :
                          HandleProofSubmission(c, UnknownStream, a)) =>
            reply'[c] = Some([type |-> "proof_submission_error"])]_vars

\* C23: a message arriving on a connection that is not in the connection
\* table is dropped: it changes neither that connection's filter list nor
\* the stream registry, and emits no event.  (The connection's own teardown
\* is not a message.)
C23_MessageOfRemovedConnectionDropped ==
  [][\A c \in Clients :
       (c \notin connected_clients /\ pc[c] = "idle" /\ pc'[c] # "closed") =>
         /\ FiltersOf(client_subscriptions', c) = FiltersOf(client_subscriptions, c)
         /\ \A sid \in DOMAIN active_streams' :
              sid \notin DOMAIN active_streams => active_streams'[sid].creator # c
         /\ lastEmit'.n > 0 => lastEmit'.event.data.submitter # Some(c)]_vars

\* C24: the filter list of a connection changes only in a step that handles
\* a subscribe or unsubscribe message of that connection, or in that
\* connection's teardown: not in a step of another connection, a broadcast
\* or a metrics tick.
C24_ListChangedOnlyByOwner ==
  [][\A c \in Clients :
       (\/ FiltersOf(client_subscriptions', c) # FiltersOf(client_subscriptions, c)
        \/ (c \in SubKeys(client_subscriptions')) # (c \in SubKeys(client_subscriptions))) =>
         \/ \E fd \in SubscribeFilters : HandleSubscription(c, fd)
         \/ \E sid \in UnsubscribeIds : HandleUnsubscription(c, sid)
         \/ Teardown(c)]_vars

\* C24 witness: a connection holds a filter after another connection created
\* a stream, an event was emitted and the metrics task ticked
C24_Witness ==
  \E c, d \in Clients :
    /\ c # d
    /\ Len(FiltersOf(client_subscriptions, c)) > 0
    /\ \E sid \in DOMAIN active_streams : active_streams[sid].creator = d
    /\ metrics.total_events > 0
    /\ last_metrics_update > 0

\* C25: on every emit, the handlers awaited are exactly the handlers
\* registered for the kind of the event, each once and in registration
\* order, also the ones registered after a handler that raises.
C25_HandlersInvokedInOrder ==
  Emitted => lastEmit.invoked = event_handlers[lastEmit.event.event_type]

\* C25 witness: an emit over a subscribed connection awaited a handler that
\* raises and then the next one, while another kind has a handler too
C25_Witness ==
  /\ Emitted
  /\ lastEmit.event.event_type = "verification_complete"
  /\ lastEmit.invoked = <<"bad", "h1">>
  /\ event_handlers["chain_step_added"] = <<"h1">>
  /\ Len(lastEmit.subs) > 0

\* C26: a metrics tick sets events_per_second to the number of emits since
\* the previous tick divided by the time elapsed since the previous tick,
\* and resets the since-last-tick counter to zero.
C26_TickComputesRate ==
  [][\A t \in 1..MaxClock :
       MetricsTick(t) =>
         /\ metrics'.events_per_second.den > 0
         /\ metrics'.events_per_second.num * (t - last_metrics_update)
              = events_since * metrics'.events_per_second.den
         /\ events_since' = 0
         /\ last_metrics_update' = t]_vars

\* C26 witness: 10 emits over 5 time units give a rate of 2
C26_Witness ==
  /\ metrics.total_events = 10
  /\ last_metrics_update = 5
  /\ events_since = 0
  /\ metrics.events_per_second = [num |-> 2, den |-> 1]

\* C27: immediately after every metrics tick the snapshot's
\* connected_clients is the size of the connection table and its
\* active_streams is the size of the stream registry.
C27_SnapshotMatchesRegistries ==
  [][(\E t \in 1..MaxTime : MetricsTick(t)) =>
       /\ metrics'.connected_clients = Cardinality(connected_clients')
       /\ metrics'.active_streams = Cardinality(DOMAIN active_streams')]_vars

\* Supporting fact for C27: the active_streams half holds in every state.
ActiveStreamsMetricExact ==
  metrics.active_streams = Cardinality(DOMAIN active_streams)

\* C28: a create_stream request of an Open connection stores a record with
\* the requester as creator and event_count 0 and replies stream_created
\* with the id; when that send is over, one stream_created event for the id
\* is emitted.
C28_CreateStoresRepliesThenEmits ==
  [][\A c \in Clients :
       /\ \A sp \in StreamSpecs, t \in 0..MaxTime :
            (pc[c] = "idle" /\ IsOpen(c) /\ now' = t /\ HandleCreateStream(c, sp, t)) =>
              /\ active_streams'[StreamId(c, sp, t)].creator = c
              /\ active_streams'[StreamId(c, sp, t)].event_count = 0
              /\ reply'[c] = Some([type |-> "stream_created",
                                   stream_id |-> StreamId(c, sp, t)])
              /\ lastEmit' = NoEmit
              /\ cont'[c] = [k |-> "emit", event |-> StreamCreatedEvent(StreamId(c, sp, t))]
       /\ (pc[c] = "sending" /\ cont[c].k = "emit" /\ pc'[c] # "sending") =>
            /\ lastEmit'.n = metrics.total_events + 1
            /\ metrics'.total_events = metrics.total_events + 1
            /\ lastEmit'.event = cont[c].event
            /\ cont'[c] = NoCont
       /\ (cont[c].k = "emit" /\ pc'[c] = "sending") => cont'[c] = cont[c]]_vars

\* C28 witness: the stream_created event of a registered stream was emitted
\* over a subscribed connection
C28_Witness ==
  /\ Emitted
  /\ lastEmit.event.event_type = "stream_created"
  /\ lastEmit.event.stream_id \in DOMAIN active_streams
  /\ Len(lastEmit.subs) > 0

\* C29: a subscribe request of an Open connection with a well-formed filter,
\* also one that declares event_types, is answered with
\* subscription_confirmed carrying the filter and its subscription_id, and
\* the connection is still in the connection table afterwards.
C29_SubscribeConfirmedAndStillOpen ==
  [][\A c \in Clients, fd \in SubscribeFilters :
       (HandleSubscription(c, fd) /\ FilterDecodes(fd) /\ IsOpen(c)) =>
         /\ reply'[c] =
              Some([type |-> "subscription_confirmed", filter |-> DecodeFilter(fd),
                    subscription_id |-> Len(FiltersOf(client_subscriptions, c))])
         /\ c \in connected_clients']_vars

\* Supporting fact for C29: the claim holds for filters without event_types.
SubscribeWithoutKindsConfirmed ==
  [][\A c \in Clients, fd \in SubscribeFilters :
       (HandleSubscription(c, fd) /\ fd.event_types = None /\ IsOpen(c)) =>
         /\ \E m \in reply'[c] : m.type = "subscription_confirmed"
         /\ c \in connected_clients']_vars

\* C30: after a fault on a connection (here: its transport closed and it was
\* torn down) every other Open connection still has its task running and
\* still receives the events that match its filters.
C30_FaultLeavesOthersServed ==
  /\ \A d \in connected_clients : pc[d] \in {"idle", "sending"}
  /\ Emitted =>
       \A c \in lastEmit.torn :
         \A d \in Clients \ {c} :
           (OpenAtEmit(d) /\ Len(FiltersAtEmit(d)) > 0
              /\ SomeFilterAccepts(lastEmit.event, FiltersAtEmit(d)))
             => d \in lastEmit.delivered

\* Supporting fact for C30: a step that handles a fault of one connection (a
\* bad frame, a handler fault, a failed send of a reply, a close, the
\* teardown) changes neither the task, the transport, the table entry nor the
\* filter list of any other connection.
FaultTouchesOnlyItsConnection ==
  [][\A c \in Clients :
       (\/ HandleInvalidJson(c) \/ HandleUnknownType(c) \/ HandleUnsubscriptionBadId(c)
        \/ \E fd \in SubscribeFilters : ~FilterDecodes(fd) /\ HandleSubscription(c, fd)
        \/ \E a \in ProofArchitectures : HandleProofSubmission(c, UnknownStream, a)
        \/ ClientClose(c) \/ Teardown(c)
        \/ SendRaises(c) /\ cont[c] = NoCont) =>
         \A d \in Clients \ {c} :
           /\ pc'[d] = pc[d] /\ ws'[d] = ws[d] /\ cont'[d] = cont[d]
           /\ d \in connected_clients' <=> d \in connected_clients
           /\ FiltersOf(client_subscriptions', d) = FiltersOf(client_subscriptions, d)]_vars

\* ------------------------------------------------------------------ C31
\* the task of c takes a frame and runs its handler up to the next suspension
FrameHandled(c) ==
  \/ \E fd \in SubscribeFilters : HandleSubscription(c, fd)
  \/ \E sid \in UnsubscribeIds : HandleUnsubscription(c, sid)
  \/ \E sp \in StreamSpecs, t \in ClockReadings : HandleCreateStream(c, sp, t)
  \/ \E sid \in ProofStreamIds, a \in ProofArchitectures : HandleProofSubmission(c, sid, a)
  \/ HandlePing(c)

\* C31: the frames of one connection are handled one at a time: while the
\* handler of a frame has not finished (its reply is being sent, or the
\* broadcast that follows the reply is still to run) no further frame of
\* that connection is handled and the filter list of that connection is
\* not written.
C31_OneFrameAtATime ==
  [][\A c \in Clients :
       pc[c] # "idle" =>
         /\ FiltersOf(client_subscriptions', c) = FiltersOf(client_subscriptions, c)
              \/ pc[c] # "sending"
         /\ ~FrameHandled(c)]_vars

\* C31 witness: a handler is suspended in its reply with a broadcast still
\* to run, on a connection that has a filter, an open transport and frames
\* still to come
C31_Witness ==
  \E c \in Clients :
    /\ pc[c] = "sending"
    /\ cont[c].k = "emit"
    /\ ws[c] = "open"
    /\ Len(FiltersOf(client_subscriptions, c)) > 0
    /\ inputs < MaxInputs

\* ------------------------------------------------------------------ C32
\* the only constraint f declares is a quality threshold
ThresholdOnly(f) ==
  /\ f.quality_threshold # None
  /\ f.architectures = None /\ f.agents = None /\ f.chain_id = None
  /\ ~TruthyList(f.event_types)

\* C32: a list holding one filter whose only declared constraint is a
\* quality threshold T, zero included, matches an event exactly when the
\* quality score of the event (0 when absent) is at least T.
C32_ThresholdOnlyFilter ==
  (mPhase = "done" /\ Len(mFilters) = 1 /\ ThresholdOnly(mFilters[1]))
    => (mResult <=> QualityOf(mEvent) >= The(mFilters[1].quality_threshold))

\* Supporting fact for C32: the equivalence holds for every threshold but 0,
\* and with threshold 0 every event matches
ThresholdExactUnlessZero ==
  (mPhase = "done" /\ Len(mFilters) = 1 /\ ThresholdOnly(mFilters[1]))
    => IF The(mFilters[1].quality_threshold) = 0 THEN mResult
       ELSE mResult <=> QualityOf(mEvent) >= The(mFilters[1].quality_threshold)

\* ------------------------------------------------------------------ C33
\* the identity the claim names: data.agent when present, else data.submitter
ComparedIdentity(event) ==
  IF event.data.agent # None THEN event.data.agent ELSE event.data.submitter

\* the only constraint f declares is a set of agents
AgentsOnly(f) ==
  /\ TruthyList(f.agents)
  /\ f.architectures = None /\ f.quality_threshold = None /\ f.chain_id = None
  /\ ~TruthyList(f.event_types)

C34_UndecodableFilterRejected ==
  [][\A c \in Clients :
       (pc[c] = "idle" /\ IsOpen(c)) =>
         \A fd \in SubscribeFilters :
           (~FilterDecodes(fd) /\ HandleSubscription(c, fd)) =>
             /\ reply'[c] = Some([type |-> "subscription_error"])
             /\ FiltersOf(client_subscriptions', c) = FiltersOf(client_subscriptions, c)
             /\ SubKeys(client_subscriptions') = SubKeys(client_subscriptions)]_vars

\* C34 witness: subscription_error is on its way to a connection that has
\* a filter, while another connection has no registry entry
C34_Witness ==
  \E c \in Clients, d \in Clients :
    /\ reply[c] # None
    /\ The(reply[c]).type = "subscription_error"
    /\ Len(FiltersOf(client_subscriptions, c)) > 0
    /\ d \in connected_clients
    /\ d \notin SubKeys(client_subscriptions)

\* ------------------------------------------------------------------ C35
FailureReplies == {"stream_creation_error", "proof_submission_error"}

\* C35: a failure reply of create_stream or submit_proof is never sent by a
\* request that has already been answered with its success reply (the task
\* was suspended in stream_created with the broadcast still to run), and
\* the step that sends it registers no stream and makes no emit.
C35_OneReplyAndCleanFailure ==
  [][\A c \in Clients :
       (reply'[c] # None /\ reply'[c] # reply[c]
          /\ The(reply'[c]).type \in FailureReplies) =>
         /\ cont[c].k # "emit"
         /\ active_streams' = active_streams
         /\ lastEmit' = NoEmit]_vars

\* ------------------------------------------------------------------ C36
\* C36: after every step total_events is the number of _emit_event calls
\* made so far, it is not smaller than before the step, and it is the sum
\* of the counts the past metrics ticks have reset plus the current
\* since-last-tick counter.
C36_EveryEmitCountedOnce ==
  [][/\ metrics'.total_events = emitCalls'
     /\ metrics'.total_events >= metrics.total_events
     /\ metrics'.total_events = consumed' + events_since']_vars

\* C36 witness: a tick fell between two broadcasts
C36_Witness ==
  /\ consumed > 0
  /\ events_since > 0
  /\ last_metrics_update > 0
  /\ Emitted

\* ------------------------------------------------------------------ C37
Welcome(c) == Some([type |-> "connection_established", client_id |-> c])

\* C37: nothing is sent to a connection that has not been accepted; the
\* step that accepts it sends connection_established; and while that send
\* is suspended, whatever other connections and helpers do, the connection
\* is in no emit's registry, receives no stream_event, and no other frame
\* is sent to it.
C37_WelcomeIsFirst ==
  [][\A c \in Clients :
       /\ pc[c] = "new" =>
            /\ reply'[c] \in {None, Welcome(c)}
            /\ pc'[c] # "new" => reply'[c] = Welcome(c)
            /\ c \notin SubKeys(client_subscriptions')
       /\ (pc[c] = "sending" /\ reply[c] = Welcome(c)) =>
            /\ reply'[c] \in {None, Welcome(c)}
            /\ c \notin SubKeys(client_subscriptions')
            /\ lastEmit'.n > 0 =>
                 /\ c \notin lastEmit'.delivered
                 /\ c \notin SubKeys(lastEmit'.subs)]_vars

\* C37 witness: an event was emitted over a subscribed connection while
\* the welcome of another connection was being sent
C37_Witness ==
  \E c \in Clients :
    /\ pc[c] = "sending"
    /\ reply[c] = Welcome(c)
    /\ Emitted
    /\ Len(lastEmit.subs) > 0

\* ------------------------------------------------------------------ C38
\* C38: a connection whose teardown has run stays torn down, and no step
\* (a broadcast, a request of another connection, a metrics tick) puts
\* its identity back into the connection table or the subscription registry.
C38_ClosedIsTerminal ==
  [][\A c \in Clients :
       pc[c] = "closed" =>
         /\ pc'[c] = "closed"
         /\ c \notin connected_clients'
         /\ c \notin SubKeys(client_subscriptions')]_vars

\* C38 witness: after a teardown another connection subscribed, an event
\* was emitted and the metrics task ticked
C38_Witness ==
  \E c, d \in Clients :
    /\ pc[c] = "closed"
    /\ Len(FiltersOf(client_subscriptions, d)) > 0
    /\ metrics.total_events > 0
    /\ last_metrics_update > 0

\* ------------------------------------------------------------------ C39
\* the channel is down and the client's reader task is past it
ChannelGone ==
  client.websocket # "open" /\ client.reader # "iterating"

\* C39: a subscribe, submit_proof or create_stream call made while the
\* client has no open channel (before a connect has succeeded, after
\* disconnect, after the server side closed the channel and the reader task
\* has met the close) sends nothing and fails; and connected is set only
\* while the channel is open or its close has not been met yet.
C39_ClientRefusesWhenNotConnected ==
  [][/\ \A k \in ClientRequests :
          (ChannelGone /\ ClientRequest(k)) =>
            /\ client'.sent = client.sent
            /\ client'.outcome \in {"ConnectionError", "ConnectionClosed"}
     /\ client'.connected =>
          (client'.websocket = "open" \/ client'.reader = "iterating")]_vars

\* Supporting fact for C39: a request made while connected is not set, or
\* before any channel exists, sends nothing and raises ConnectionError
GuardRefusesRequests ==
  [][\A k \in ClientRequests :
       ((~client.connected \/ client.websocket = "none") /\ ClientRequest(k)) =>
         /\ client'.sent = client.sent
         /\ client'.outcome = "ConnectionError"]_vars

\* Supporting fact for C39: connected stays set on a channel that is gone
\* only after the peer ended it with a close handshake
ConnectedStaleOnlyAfterNormalClose ==
  (client.connected /\ ChannelGone) => client.closing = "normal"

\* ------------------------------------------------------------------ C40
\* C40: a metrics task that has seen stop_server complete makes at most one
\* more pass of its loop, and then returns.
C40_MetricsTaskEndsAfterStop ==
  /\ [](\A i \in DOMAIN life.tasks : life.tasks[i].stopped => life.tasks[i].after <= 1)
  /\ \A i \in 1..MaxStarts :
       (i \in DOMAIN life.tasks /\ life.tasks[i].stopped)
         ~> (i \in DOMAIN life.tasks /\ life.tasks[i].pc = "done")

\* Supporting fact for C40: a metrics task goes on after a completed stop
\* only when the broker has been started again
SurvivesStopOnlyByRestart ==
  \A i \in DOMAIN life.tasks :
    (life.tasks[i].stopped /\ life.tasks[i].after > 1) => Len(life.tasks) > i

====
